---- MODULE Spec2Model ----
(***************************************************************************)
(* Model of "Medical Chatbot With MultiModel"/app.py: the Streamlit page   *)
(* main(), the analysis routine process_image() and its helper             *)
(* make_api_request().                                                     *)
(*                                                                         *)
(* Text is modelled as a sequence of tokens (each token an indivisible     *)
(* piece of a Python str); concatenation and f-strings are \o, and the     *)
(* Python test  a in b  on two strs is Contains(b, a).  A Python value is  *)
(* a record [kind, s]: a str with its tokens, or None.  A dict is the      *)
(* sequence of its <<key, value>> items in insertion order.                *)
(***************************************************************************)
EXTENDS Integers, Sequences, FiniteSets, TLC

VARIABLES
    pc,        \* position of the script: start, ready, validate, call,
               \* inflight, handle, returned, done, crashed
    runs,      \* number of the current script run / invocation
    caller,    \* who invoked process_image: "main" (line 178) or "direct"
    apiKey,    \* os.getenv('GROQ_API_KEY'): never written by the program
    image,     \* the uploaded bytes, by what PIL makes of them
    query,     \* the query text (tokens are characters)
    cur,       \* which of the two model blocks process_image is in (0: none)
    posts,     \* the HTTP POSTs issued by this invocation, in order
    response,  \* response1, response2: what make_api_request returned
    results,   \* the local dict  results  of process_image
    ret,       \* the mapping process_image returned (<<>>: not returned)
    retImg,    \* the second element of the returned pair
    display    \* what main has put on the page: warnings, errors, markdown

vars == <<pc, runs, caller, apiKey, image, query, cur, posts, response,
          results, ret, retImg, display>>

\* Bounds of the model.
MaxQueryLen == 2
MaxRuns == 2

-----------------------------------------------------------------------------
(* Python values and text *)

PyStr(s) == [kind |-> "str", s |-> s]
PyNone == [kind |-> "none", s |-> <<>>]

\* bool(v) of a str or None
PyTruthy(v) == v.kind = "str" /\ v.s # <<>>

\* str(v) / f"{v}"
PyFormat(v) == IF v.kind = "none" THEN <<"None">> ELSE v.s

\* needle in hay, for two strs
Contains(hay, needle) ==
    \E i \in 0..(Len(hay) - Len(needle)) :
        SubSeq(hay, i + 1, i + Len(needle)) = needle

\* str.strip(): the text without its leading and trailing blanks
RECURSIVE LStrip(_)
LStrip(s) == IF s # <<>> /\ Head(s) = " " THEN LStrip(Tail(s)) ELSE s
RECURSIVE RStrip(_)
RStrip(s) ==
    IF s # <<>> /\ s[Len(s)] = " " THEN RStrip(SubSeq(s, 1, Len(s) - 1)) ELSE s
Strip(s) == RStrip(LStrip(s))

(* dicts, as item sequences in insertion order *)

Keys(d) == [i \in DOMAIN d |-> d[i][1]]
HasKey(d, k) == \E i \in DOMAIN d : d[i][1] = k
Get(d, k) == d[CHOOSE i \in DOMAIN d : d[i][1] = k][2]
\* d[k] = v: an existing key keeps its place, a new one goes last
DictSet(d, k, v) ==
    IF HasKey(d, k)
    THEN [i \in DOMAIN d |-> IF d[i][1] = k THEN <<k, v>> ELSE d[i]]
    ELSE Append(d, <<k, v>>)

-----------------------------------------------------------------------------
(* Inputs *)

Chars == {"a", " "}
Queries == UNION {[1..n -> Chars] : n \in 0..MaxQueryLen}

\* What os.getenv returns: None when unset, "" when set empty, else the key.
ApiKeys == {PyNone, PyStr(<<>>), PyStr(<<"gsk_key">>)}

\* Uploaded bytes: a sound image; bytes Image.open identifies but verify()
\* rejects; bytes Image.open itself rejects.
Images == {"valid", "verify_fails", "open_fails"}

\* Response bodies, by the shape response.json() finds in them.
Bodies ==
    { [shape |-> "nonjson",      payload |-> <<"server error">>],
      [shape |-> "ok",           payload |-> <<"No anomalies detected.">>],
      [shape |-> "nullcontent",  payload |-> <<>>],
      [shape |-> "nochoices",    payload |-> <<"model not found">>],
      [shape |-> "emptychoices", payload |-> <<>>] }
NoBody == [shape |-> "nonjson", payload |-> <<>>]

Statuses == {200, 201, 404, 500}

\* What requests.post does: raise, or return a response.
TransportOutcomes ==
    { [kind |-> "exception", status |-> 0, body |-> NoBody] } \cup
    { [kind |-> "response", status |-> s, body |-> b] : s \in Statuses, b \in Bodies }

-----------------------------------------------------------------------------
(* make_api_request *)

\* The three kinds of value make_api_request hands back, and "unset" for a
\* local (response1, response2) not assigned yet.
Unset == [kind |-> "unset", status |-> 0, body |-> NoBody]
NoneRet == [kind |-> "None", status |-> 0, body |-> NoBody]
DictRet == [kind |-> "dict", status |-> 0, body |-> NoBody]
ResponseRet(s, b) == [kind |-> "Response", status |-> s, body |-> b]

\* The text of the dict returned when the key is missing.
MissingKeyMsg == <<"GROQ_API_KEY not found in environment variables">>

\* try: return requests.post(...)  except Exception: return None
PostReturn(o) ==
    IF o.kind = "exception" THEN NoneRet ELSE ResponseRet(o.status, o.body)

\* models: (display label, model identifier)
models ==
    << <<"Llama-4 Scout (17B)", "meta-llama/llama-4-scout-17b-16e-instruct">>,
       <<"Llama-4 Maverick (90B)", "meta-llama/llama-4-maverick-17b-128e-instruct">> >>

\* Copy-paste slip: both blocks request models[0].
RequestedModelFirstOnly(i) == models[1][2]

\* The identifier block i passes to make_api_request.
RequestedModel(i) == models[i][2]

\* The key block i stores its result under.
ResultKey(i) == models[i][1]

-----------------------------------------------------------------------------
(* process_image: the response handling of one model block *)

\* response.text
ResponseText(b) ==
    CASE b.shape = "nonjson" -> b.payload
      [] b.shape = "ok" ->
            <<"{\"choices\":[{\"message\":{\"content\":\"">> \o b.payload \o <<"\"}}]}">>
      [] b.shape = "nullcontent" -> <<"{\"choices\":[{\"message\":{\"content\":null}}]}">>
      [] b.shape = "nochoices" -> <<"{\"error\":\"">> \o b.payload \o <<"\"}">>
      [] b.shape = "emptychoices" -> <<"{\"choices\":[]}">>

Raise(msg) == [raised |-> TRUE, value |-> PyNone, exc |-> msg]
Value(v) == [raised |-> FALSE, value |-> v, exc |-> <<>>]

\* response.json()["choices"][0]["message"]["content"]
JsonContent(b) ==
    CASE b.shape = "nonjson" -> Raise(<<"Expecting value: line 1 column 1 (char 0)">>)
      [] b.shape = "nochoices" -> Raise(<<"'choices'">>)
      [] b.shape = "emptychoices" -> Raise(<<"list index out of range">>)
      [] b.shape = "nullcontent" -> Value(PyNone)
      [] b.shape = "ok" -> Value(PyStr(b.payload))

\* bool(response): None is false, a non-empty dict is true, and a
\* requests.Response is true exactly when its status is no 4xx or 5xx.
Truthy(r) ==
    CASE r.kind = "None" -> FALSE
      [] r.kind = "dict" -> TRUE
      [] r.kind = "Response" -> ~(400 <= r.status /\ r.status < 600)

\* error_msg = response.text if response else "Request failed"
ErrorMsg(r) == IF Truthy(r) THEN ResponseText(r.body) ELSE <<"Request failed">>

DictHasNoStatus == <<"'dict' object has no attribute 'status_code'">>
NoneHasNoStatus == <<"'NoneType' object has no attribute 'status_code'">>

\* The None guard left out:  if response.status_code == 200:
SlotOutcomeUnguarded(r) ==
    IF r.kind = "None" THEN Raise(NoneHasNoStatus)
    ELSE IF r.kind = "dict" THEN Raise(DictHasNoStatus)
    ELSE IF r.status = 200 THEN JsonContent(r.body)
    ELSE Value(PyStr(<<"Error", ": ">> \o ErrorMsg(r)))

\* if response and response.status_code == 200: <content>
\* else: f"Error: {error_msg}"
\* The value stored in the slot, or the exception the block raises.
SlotOutcome(r) ==
    IF Truthy(r) /\ r.kind = "dict" THEN Raise(DictHasNoStatus)
    ELSE IF Truthy(r) /\ r.status = 200 THEN JsonContent(r.body)
    ELSE Value(PyStr(<<"Error", ": ">> \o ErrorMsg(r)))

-----------------------------------------------------------------------------
(* process_image: validation and the outer handler *)

UnboundImg ==
    <<"cannot access local variable 'img' where it is not associated with a value">>

\* verify() left out: whatever Image.open identifies passes.
ValidateImageOpenOnly(img) ==
    CASE img = "valid" -> [kind |-> "ok", mapping |-> <<>>]
      [] img = "verify_fails" -> [kind |-> "ok", mapping |-> <<>>]
      [] img = "open_fails" -> [kind |-> "raise", mapping |-> <<>>]

\* The inner try of process_image.  A failing verify() returns the
\* "Invalid image" mapping with img; a failing Image.open leaves img unbound,
\* so the handler's own return statement raises.
ValidateImage(img) ==
    CASE img = "valid" -> [kind |-> "ok", mapping |-> <<>>]
      [] img = "verify_fails" ->
            [kind |-> "return",
             mapping |-> << <<"error", PyStr(<<"Invalid image: ", "broken data stream">>)>> >>]
      [] img = "open_fails" -> [kind |-> "raise", mapping |-> <<>>]

\* The handler adds the error to the results gathered so far.
ExceptMappingKeepsResults(msg) ==
    DictSet(results, "error", PyStr(<<"Error processing image: ">> \o msg))

\* except Exception as e: return {"error": f"Error processing image: {str(e)}"}, None
ExceptMapping(msg) ==
    << <<"error", PyStr(<<"Error processing image: ">> \o msg)>> >>

-----------------------------------------------------------------------------
(* The state machine *)

Fresh ==
    /\ caller = "none" /\ image = "none" /\ query = <<>> /\ cur = 0
    /\ posts = <<>> /\ response = <<Unset, Unset>> /\ results = <<>>
    /\ ret = <<>> /\ retImg = "none" /\ display = <<>>

Init ==
    /\ pc = "start"
    /\ runs = 1
    /\ apiKey \in ApiKeys
    /\ Fresh

\* main, lines 146-167 and 206-207, run with no file uploaded.
NoUpload ==
    /\ pc = "start"
    /\ caller' = "main"
    /\ display' = Append(display, [w |-> "info", text |-> <<"Please upload an image to begin.">>])
    /\ pc' = "done"
    /\ UNCHANGED <<runs, apiKey, image, query, cur, posts, response, results, ret, retImg>>

\* main, lines 146-167, run with an uploaded file: Image.open(uploaded_file)
\* at line 161 is outside every try, so bytes it rejects end the run there.
Upload(img) ==
    /\ pc = "start"
    /\ caller' = "main"
    /\ image' = img
    /\ pc' = IF img = "open_fails" THEN "crashed" ELSE "ready"
    /\ UNCHANGED <<runs, apiKey, query, cur, posts, response, results, ret, retImg, display>>

\* main, lines 169-178: the Analyze button with the text area holding q.
Analyze(q) ==
    /\ pc = "ready"
    /\ query' = q
    /\ IF q = <<>>
       THEN /\ display' = Append(display, [w |-> "warning", text |-> <<"Please enter a query.">>])
            /\ pc' = "done"
       ELSE /\ pc' = "validate"
            /\ UNCHANGED display
    /\ UNCHANGED <<runs, caller, apiKey, image, cur, posts, response, results, ret, retImg>>

\* process_image(image_file, query) called by other code than main.
CallProcessImage(img, q) ==
    /\ pc = "start"
    /\ caller' = "direct"
    /\ image' = img
    /\ query' = q
    /\ pc' = "validate"
    /\ UNCHANGED <<runs, apiKey, cur, posts, response, results, ret, retImg, display>>

\* process_image, lines 96-120.
Validate ==
    /\ pc = "validate"
    /\ LET v == ValidateImage(image) IN
         CASE v.kind = "ok" ->
                /\ pc' = "call" /\ cur' = 1
                /\ UNCHANGED <<ret, retImg>>
           [] v.kind = "return" ->
                /\ pc' = "returned" /\ ret' = v.mapping /\ retImg' = "img"
                /\ UNCHANGED cur
           [] v.kind = "raise" ->
                /\ pc' = "returned" /\ ret' = ExceptMapping(UnboundImg) /\ retImg' = "None"
                /\ UNCHANGED cur
    /\ UNCHANGED <<runs, caller, apiKey, image, query, posts, response, results, display>>

\* make_api_request, lines 58-89, called by block cur: without a key it
\* returns the error dict at once, with one it issues the POST.
MakeApiRequest ==
    /\ pc = "call"
    /\ IF ~PyTruthy(apiKey)
       THEN /\ response' = [response EXCEPT ![cur] = DictRet]
            /\ pc' = "handle"
            /\ UNCHANGED posts
       ELSE /\ posts' = Append(posts, [model |-> RequestedModel(cur), query |-> query,
                                      bearer |-> apiKey.s])
            /\ pc' = "inflight"
            /\ UNCHANGED response
    /\ UNCHANGED <<runs, caller, apiKey, image, query, cur, results, ret, retImg, display>>

\* make_api_request, lines 90-93: requests.post returns or raises.
PostCompletes(o) ==
    /\ pc = "inflight"
    /\ response' = [response EXCEPT ![cur] = PostReturn(o)]
    /\ pc' = "handle"
    /\ UNCHANGED <<runs, caller, apiKey, image, query, cur, posts, results, ret, retImg, display>>

\* process_image, lines 125-129 (cur = 1) and 133-139 (cur = 2); an
\* exception goes to the handler at lines 141-143.
HandleResponse ==
    /\ pc = "handle"
    /\ LET out == SlotOutcome(response[cur]) IN
         IF out.raised
         THEN /\ ret' = ExceptMapping(out.exc) /\ retImg' = "None"
              /\ pc' = "returned"
              /\ UNCHANGED <<results, cur>>
         ELSE /\ results' = DictSet(results, ResultKey(cur), out.value)
              /\ IF cur = 1
                 THEN /\ cur' = 2 /\ pc' = "call"
                      /\ UNCHANGED <<ret, retImg>>
                 ELSE /\ ret' = results' /\ retImg' = "img"
                      /\ pc' = "returned"
                      /\ UNCHANGED cur
    /\ UNCHANGED <<runs, caller, apiKey, image, query, posts, response, display>>

\* main, lines 191-195 / 200-204: one column.  results[label] raises KeyError
\* on a missing key, and  "Error" in response_text  raises TypeError on None.
RenderColumn(shown, d, label) ==
    IF ~HasKey(d, label) THEN [raised |-> TRUE, shown |-> shown]
    ELSE LET text == Get(d, label)
             box == Append(shown, [w |-> "markdown",
                                   text |-> <<"<div class=\"result-box\">">> \o PyFormat(text)
                                            \o <<"</div>">>])
         IN  IF text.kind = "none" THEN [raised |-> TRUE, shown |-> box]
             ELSE IF Contains(text.s, <<"Error">>)
             THEN [raised |-> FALSE, shown |-> Append(box, [w |-> "error", text |-> text.s])]
             ELSE [raised |-> FALSE, shown |-> box]

\* main, lines 182-204.
Render ==
    /\ pc = "returned"
    /\ caller = "main"
    /\ IF HasKey(ret, "error")
       THEN /\ display' = Append(display, [w |-> "error", text |-> PyFormat(Get(ret, "error"))])
            /\ pc' = "done"
       ELSE LET c1 == RenderColumn(display, ret, "Llama-4 Scout (17B)")
                c2 == RenderColumn(c1.shown, ret, "Llama-4 Maverick (90B)")
            IN  IF c1.raised
                THEN display' = c1.shown /\ pc' = "crashed"
                ELSE /\ display' = c2.shown
                     /\ pc' = IF c2.raised THEN "crashed" ELSE "done"
    /\ UNCHANGED <<runs, caller, apiKey, image, query, cur, posts, response, results, ret, retImg>>

\* The next script run (Streamlit reruns main on every interaction), or the
\* next call of process_image: nothing is kept from the one before.
Rerun ==
    /\ pc \in {"done", "crashed"} \/ (pc = "returned" /\ caller = "direct")
    /\ runs < MaxRuns
    /\ runs' = runs + 1
    /\ pc' = "start"
    /\ caller' = "none" /\ image' = "none" /\ query' = <<>> /\ cur' = 0
    /\ posts' = <<>> /\ response' = <<Unset, Unset>> /\ results' = <<>>
    /\ ret' = <<>> /\ retImg' = "none" /\ display' = <<>>
    /\ UNCHANGED apiKey

Next ==
    \/ NoUpload
    \/ \E img \in Images : Upload(img)
    \/ \E q \in Queries : Analyze(q)
    \/ \E img \in Images, q \in Queries : CallProcessImage(img, q)
    \/ Validate
    \/ MakeApiRequest
    \/ \E o \in TransportOutcomes : PostCompletes(o)
    \/ HandleResponse
    \/ Render
    \/ Rerun

Spec == Init /\ [][Next]_vars

-----------------------------------------------------------------------------
(* Properties *)

\* process_image has returned its (mapping, image) pair.
Returned == ret # <<>>

\* The invocation is the one main makes at line 178, for a query that is not
\* blank: an analysis started from the page as a user would.
FromPage == caller = "main" /\ Strip(query) # <<>>

ModelLabels == <<ResultKey(1), ResultKey(2)>>

IsFailureText(v) == v.kind = "str" /\ Len(v.s) >= 2 /\ SubSeq(v.s, 1, 2) = <<"Error", ": ">>

\* The response of block i is a 200 whose body lacks choices[0].message.content.
Malformed200(i) ==
    /\ response[i].kind = "Response"
    /\ response[i].status = 200
    /\ response[i].body.shape \in {"nonjson", "nochoices", "emptychoices"}

\* The response of block i is a 200 whose content is an answer text.
WellFormed200(i) ==
    /\ response[i].kind = "Response"
    /\ response[i].status = 200
    /\ response[i].body.shape = "ok"

\* C1: for either model, a response whose status is not 200 (4xx and 5xx
\* included) leaves in that model's slot of the mapping a failure text that
\* carries the raw response body text.  Stated for the analyses started from
\* the page; results is the mapping line 139 returns.
C1_NonOkSlotCarriesBody ==
    \A i \in 1..2 :
        ( /\ FromPage
          /\ response[i].kind = "Response"
          /\ response[i].status # 200
          /\ HasKey(results, ResultKey(i)) )
        => /\ IsFailureText(Get(results, ResultKey(i)))
           /\ Contains(Get(results, ResultKey(i)).s, ResponseText(response[i].body))

\* C2: a 200 response without the expected shape, for either model, gives a
\* failure text in that model's slot only: the other model's request is still
\* issued and its slot holds the result it would have had anyway.  Stated for
\* the analyses started from the page.
C2_MalformedIsolated ==
    \A i \in 1..2 :
        (FromPage /\ Returned /\ Malformed200(i))
        => /\ HasKey(ret, ResultKey(i))
           /\ IsFailureText(Get(ret, ResultKey(i)))
           /\ Len(posts) = 2
           /\ response[3 - i].kind # "unset"
           /\ ~SlotOutcome(response[3 - i]).raised
                => /\ HasKey(ret, ResultKey(3 - i))
                   /\ Get(ret, ResultKey(3 - i)) = SlotOutcome(response[3 - i]).value

\* C3: when one model's request raises a transport exception and the other
\* returns a well-formed 200, the returned mapping holds "Error: Request
\* failed" in the failing model's slot and the other model's answer in its
\* slot, whichever model fails; and after a transport failure of the first
\* model the second model's request has been issued by the time
\* process_image returns.
C3_TransportFailureIsolated ==
    /\ \A i \in 1..2 :
        (Returned /\ response[i].kind = "None" /\ WellFormed200(3 - i))
        => /\ Keys(ret) = ModelLabels
           /\ Get(ret, ResultKey(i)) = PyStr(<<"Error", ": ", "Request failed">>)
           /\ Get(ret, ResultKey(3 - i)) = PyStr(response[3 - i].body.payload)
    /\ (Returned /\ response[1].kind = "None")
        => /\ Len(posts) = 2
           /\ posts[2].model = models[2][2]
           /\ response[2].kind # "unset"

\* C3 witness: in an analysis started from the page, model 1 failed in
\* transport, model 2 answered, and the pair was returned.
C3_Witness ==
    /\ FromPage
    /\ Returned
    /\ response[1].kind = "None"
    /\ WellFormed200(2)
    /\ Get(ret, ResultKey(2)) = PyStr(<<"No anomalies detected.">>)

\* C4: with GROQ_API_KEY unset or empty and a valid image, no POST is issued
\* and the returned outcome reports the missing credential, in both slots or
\* as the single global error.  Stated for the analyses started from the
\* page.
C4_MissingKeyReported ==
    (FromPage /\ Returned /\ image = "valid" /\ ~PyTruthy(apiKey))
    => /\ posts = <<>>
       /\ \/ /\ Keys(ret) = <<"error">>
             /\ Contains(Get(ret, "error").s, MissingKeyMsg)
          \/ /\ Keys(ret) = ModelLabels
             /\ \A i \in 1..2 : Contains(Get(ret, ResultKey(i)).s, MissingKeyMsg)

\* C5: for a valid image and a non-empty query, whatever the credential and
\* the transport do, the returned mapping has exactly the two model labels as
\* keys, Scout first and Maverick second.  Stated for the analyses started
\* from the page.
C5_AlwaysTwoEntries ==
    (FromPage /\ Returned /\ image = "valid" /\ query # <<>>)
    => Keys(ret) = ModelLabels

\* C6: pressing Analyze with an empty or all-blank query ends with a warning
\* or error and no POST: a POST issued from main always carries a query that
\* is non-empty after trimming.
C6_BlankQueryNeverPosted ==
    caller = "main"
    => /\ \A k \in DOMAIN posts : Strip(posts[k].query) # <<>>
       /\ (pc = "done" /\ image # "none" /\ Strip(query) = <<>>)
            => /\ posts = <<>>
               /\ \E k \in DOMAIN display : display[k].w \in {"warning", "error"}

\* C7: for bytes that fail validation (Image.open raises, or verify raises)
\* process_image returns a mapping whose only key is "error", and
\* make_api_request is never called: no POST, no response.
C7_InvalidImageSingleError ==
    image \in {"verify_fails", "open_fails"}
    => /\ posts = <<>>
       /\ response = <<Unset, Unset>>
       /\ pc \notin {"call", "inflight", "handle"}
       /\ Returned => Keys(ret) = <<"error">>

\* C7 witness: an analysis started from the page on bytes verify() rejects
\* has returned its error mapping.
C7_Witness ==
    /\ FromPage
    /\ Returned
    /\ image = "verify_fails"
    /\ Keys(ret) = <<"error">>
    /\ posts = <<>>

\* C8: no fault escapes the analysis flow: once process_image has returned,
\* the rendering in main completes and never ends in an uncaught exception.
\* Stated for the analyses started from the page.
C8_NoFaultEscapes == ~(FromPage /\ Returned /\ pc = "crashed")

\* C9: every mapping process_image returns has either "error" as its only
\* key or exactly the two model labels as its keys; never one label alone,
\* never "error" beside a label.
C9_OutcomeAllOrNothing ==
    Returned
    => \/ Keys(ret) = <<"error">>
       \/ /\ Len(ret) = 2
          /\ {ret[k][1] : k \in DOMAIN ret} = {ResultKey(1), ResultKey(2)}

\* C9 witness: model 1's result was recorded, model 2's block faulted, and
\* the pair was returned.
C9_Witness ==
    /\ FromPage
    /\ Returned
    /\ Len(results) = 1
    /\ HasKey(results, ResultKey(1))
    /\ Malformed200(2)

\* C10: the POSTs of one invocation form a prefix of [model 1, model 2]:
\* at most two, each model at most once, and the POST for model 2 only once
\* model 1's request has returned or raised, so at most one is in flight.
C10_PostsSequentialPrefix ==
    /\ Len(posts) <= 2
    /\ \A k \in DOMAIN posts : posts[k].model = models[k][2]
    /\ \A k \in DOMAIN posts : k < Len(posts) => response[k].kind \in {"None", "Response"}
    /\ Cardinality({k \in DOMAIN posts : response[k].kind = "unset"}) <= 1

\* C10 witness: model 1's request failed and the POST for model 2, the
\* second and last, is in flight.
C10_Witness ==
    /\ FromPage
    /\ pc = "inflight"
    /\ Len(posts) = 2
    /\ response[1].kind = "None"
    /\ response[2].kind = "unset"

====
